---- MODULE Spec2Model ----
(***************************************************************************)
(* Scoreboard API service (problem 6 design, embedded in SwapForm.jsx):    *)
(* the score-update pipeline, the rate limiter, the action log, the        *)
(* leaderboard cache and the real-time broadcast, as a state machine.      *)
(* Every request-handling worker walks the eight steps of "Score Update    *)
(* Process"; the database, Redis and the connected clients are shared.     *)
(***************************************************************************)
EXTENDS Integers, Sequences, FiniteSets, TLC

(* ------------------------------ bounds --------------------------------- *)
NumUsers == 2
NumActionIds == 2
NumWorkers == 2
NumSubs == 1
MaxRequests == 2
MaxCount == 1
MaxIncrement == 2
TopK == 1
MaxLimit == 2
Epsilon == 2
MaxMagnitude == 4000000
AmountLimit == 1000000
Decimals == 6
QueueBound == 1
MaxPending == 2
MaxResources == 2
MaxClock == 1
MaxN == 10

Users == 1..NumUsers
ActionIds == 1..NumActionIds
Workers == 1..NumWorkers
Subs == 1..NumSubs
Increments == 0..(MaxIncrement + 1)

(* allowed action types and the maximum score increment of each *)
AllowedTypes == {"login"}
ActionTypes == AllowedTypes \cup {"bogus"}
MaxIncrementOf(t) == MaxIncrement

NoReq == [user |-> 0, action |-> 0, type |-> "none", inc |-> 0]
Requests == [user : Users, action : ActionIds, type : ActionTypes, inc : Increments]
NoCache == <<>>
Limits == 1..MaxLimit
NoResponse == [scores |-> <<>>, totalUsers |-> 0]

VARIABLES
  pc,          \* worker -> step of the score update process it is at
  req,         \* worker -> the request it handles
  result,      \* worker -> the response it gave ("none" while in progress)
  newScore,    \* worker -> score computed by its UPDATE inside the transaction
  rank,        \* worker -> rank calculated inside the transaction (0: none)
  keyExpired,  \* worker -> the window of the counter it read has ended
  tx,          \* worker -> uncommitted writes of its transaction
  started,     \* number of requests received so far
  action_logs, \* table action_logs: sequence of committed rows
  scores,      \* table scores: user -> score
  rate,        \* Redis: user -> request count in the current window
  passed,      \* user -> requests that passed the rate check in this window
  ttl,         \* Redis: clock ticks left before the top-K key expires
  cold,        \* clock ticks at which the cached data no longer matched the store
  cacheValid,  \* Redis: the top-K key exists (not expired, not invalidated)
  cache,       \* Redis: cached top-K leaderboard
  published,   \* update events published to the message queue, in order
  subscribers, \* clients connected to /api/scores/stream
  queues,      \* subscriber -> events sent and not yet received
  pos,         \* subscriber -> events published that are no longer ahead of it:
               \* published before it connected, received by it, or dropped
  qpc,         \* position of the GET /api/scores/top request being handled
  qlimit,      \* its limit parameter (0: none)
  qdata,       \* the rows its database query returned
  qres,        \* its response
  lastRecv,    \* subscriber -> position in published of the last event it received
  prices,      \* swap form: token -> price (0: no price)
  loading,     \* swap form: the prices are being fetched
  submitting,  \* swap form: a submission is in progress
  fromToken,   \* swap form: token to send
  toToken,     \* swap form: token to receive
  fromAmount,  \* swap form: text of the amount to send
  toAmount,    \* swap form: text of the amount to receive
  errors,      \* swap form: the fromAmount and the general error shown
  event,       \* swap form: the handler that ran last
  pending,     \* swap form: simulated backend calls that have not returned
  showFromDropdown, \* swap form: the selector of the token to send is open
  showToDropdown,   \* swap form: the selector of the token to receive is open
  writer,      \* Redis: who wrote the top-K key: "notify" (the update pipeline) or "query"
  resources,   \* resources API: the rows of table resources
  sequence,    \* resources API: the largest id the table ever had (sqlite_sequence)
  now,         \* resources API: CURRENT_TIMESTAMP, in seconds
  lastResponse, \* resources API: the response to it
  deleted,     \* resources API: the ids that have been deleted
  arg,         \* sum_to_n: the argument n of the calls
  spc,         \* sum_to_n: the statement being executed
  loopI,       \* sum_to_n_a: i
  loopSum,     \* sum_to_n_a: sum
  frames,      \* sum_to_n_b: the arguments of the calls on the stack
  retval,      \* sum_to_n_b: the value the last call returned
  sums,        \* sum_to_n: what sum_to_n_a, _b and _c returned (-1: not yet)
  touched      \* worker -> shared components its current request changed

vars == <<pc, req, result, newScore, rank, keyExpired, tx, started, action_logs, scores,
          rate, passed, cacheValid, cache, ttl, cold, published, subscribers,
          queues, pos, lastRecv, touched, qpc, qlimit, qdata, qres,
          prices, loading, submitting, fromToken, toToken, fromAmount, toAmount,
          errors, event, pending, showFromDropdown, showToDropdown, writer,
          resources, sequence, now, lastResponse, deleted,
          arg, spc, loopI, loopSum, frames, retval, sums>>

workerVars == <<pc, req, result, newScore, rank, keyExpired, tx, started>>
storeVars == <<action_logs, scores>>
limiterVars == <<rate, passed>>
cacheVars == <<cacheValid, cache, ttl, cold, writer>>
hubVars == <<published, subscribers, queues, pos, lastRecv>>
queryVars == <<qpc, qlimit, qdata, qres>>
formVars == <<prices, loading, submitting, fromToken, toToken, fromAmount, toAmount,
              errors, event, pending, showFromDropdown, showToDropdown>>
boardVars == <<workerVars, storeVars, limiterVars, cacheVars, hubVars, touched,
               queryVars>>
resourceVars == <<resources, sequence, now, lastResponse, deleted>>
sumVars == <<arg, spc, loopI, loopSum, frames, retval, sums>>
nonBoardVars == <<formVars, resourceVars, sumVars>>
nonFormVars == <<boardVars, resourceVars, sumVars>>
nonResourceVars == <<boardVars, formVars, sumVars>>
nonSumVars == <<boardVars, formVars, resourceVars>>

(* ----------------------------- helpers --------------------------------- *)
RECURSIVE SumInc(_, _)
SumInc(rows, u) ==
  IF rows = <<>> THEN 0
  ELSE (IF Head(rows).user = u THEN Head(rows).inc ELSE 0) + SumInc(Tail(rows), u)

Range(s) == {s[i] : i \in 1..Len(s)}

LogKeys == {<<r.user, r.action>> : r \in Range(action_logs)}

KeyOf(w) == <<req[w].user, req[w].action>>

Min(a, b) == IF a < b THEN a ELSE b

(* ORDER BY s.score DESC LIMIT k: every ordering the query may return *)
TopLists(sc, k) ==
  LET n == Min(k, Cardinality(Users)) IN
  {s \in [1..n -> Users] :
     /\ \A i, j \in 1..n : i # j => s[i] # s[j]
     /\ \A i, j \in 1..n : i < j => sc[s[i]] >= sc[s[j]]
     /\ \A u \in Users : (\A i \in 1..n : s[i] # u) =>
                           \A i \in 1..n : sc[s[i]] >= sc[u]}

(* a rank calculation that answers 1 for everybody *)
RankAlwaysFirst(sc, u) == {1}

(* the positions user u can have in an ORDER BY score DESC of the scores sc *)
RankRange(sc, u) ==
  LET higher == Cardinality({v \in Users : sc[v] > sc[u]})
      tied == Cardinality({v \in Users : sc[v] = sc[u]})
  IN  (higher + 1)..(higher + tied)

(* scores.last_updated of user u, as the position of the user's last
   committed update in the action log (0: the row was never updated) *)
LastUpdated(u) ==
  LET rows == {i \in 1..Len(action_logs) : action_logs[i].user = u}
  IN  IF rows = {} THEN 0 ELSE CHOOSE i \in rows : \A j \in rows : j <= i

(* SELECT u.id, s.score, s.last_updated for the users of s, in the order of s *)
Snapshot(sc, s) ==
  [i \in 1..Len(s) |->
     [user |-> s[i], score |-> sc[s[i]], lastUpdated |-> LastUpdated(s[i])]]

(* the response of Get Top Scores built from leaderboard data: at most
   limit entries, each with its rank, and the number of users *)
TopResponse(data, limit) ==
  [scores |-> [i \in 1..Min(limit, Len(data)) |->
                 [user |-> data[i].user, score |-> data[i].score,
                  rank |-> i, lastUpdated |-> data[i].lastUpdated]],
   totalUsers |-> Cardinality(Users)]

(* ------------------------------ swap form ------------------------------ *)
Tokens == {"SWTH", "ETH"}

NoPrices == [t \in Tokens |-> 0]

(* the price maps the fetch can return: a token may be missing (0) *)
PriceValues == {0, 1, 10}

PriceMaps == [Tokens -> PriceValues]

null == "null"

NoErrors == [fromAmount |-> null, general |-> null]

(* texts are sequences of characters *)
DigitChar == <<"0", "1", "2", "3", "4", "5", "6", "7", "8", "9">>

Digit == Range(DigitChar)

DigitValue(c) == (CHOOSE n \in 1..10 : DigitChar[n] = c) - 1

(* the values typed into the amount field *)
TypedValues ==
  { <<>>, <<".">>, <<"0">>, <<"1">>, <<"2", ".", "5">>,
    <<"1", "0", "0", "0", "0", "0", "0">>,
    <<"1", "0", "0", "0", "0", "0", "1">>,
    <<"1", "a">> }

(* /^\d*\.?\d*$/ *)
MatchesAmountPattern(v) ==
  /\ \A i \in 1..Len(v) : v[i] \in Digit \cup {"."}
  /\ Cardinality({i \in 1..Len(v) : v[i] = "."}) <= 1

(* numbers: whole part and millionths; NaN has a negative whole part *)
Scale == 10 ^ Decimals

NaN == [whole |-> -1, micro |-> 0]

isNaN(n) == n.whole < 0

RECURSIVE DigitRun(_, _)
(* the number of digits of text v from position i on *)
DigitRun(v, i) ==
  IF i <= Len(v) /\ v[i] \in Digit THEN 1 + DigitRun(v, i + 1) ELSE 0

RECURSIVE WholeValue(_)
WholeValue(ds) ==
  IF ds = <<>> THEN 0
  ELSE 10 * WholeValue(SubSeq(ds, 1, Len(ds) - 1)) + DigitValue(ds[Len(ds)])

RECURSIVE MicroValue(_, _)
(* the value in millionths of the decimals ds, the first one worth unit *)
MicroValue(ds, unit) ==
  IF ds = <<>> \/ unit = 0 THEN 0
  ELSE DigitValue(Head(ds)) * unit + MicroValue(Tail(ds), unit \div 10)

(* parseFloat: the number written by the longest prefix of the text that is a
   decimal literal, NaN when there is none *)
parseFloat(v) ==
  LET n1 == DigitRun(v, 1)
      n2 == IF n1 < Len(v) /\ v[n1 + 1] = "." THEN DigitRun(v, n1 + 2) ELSE 0
  IN  IF n1 = 0 /\ n2 = 0 THEN NaN
      ELSE [whole |-> WholeValue(SubSeq(v, 1, n1)),
            micro |-> MicroValue(SubSeq(v, n1 + 2, n1 + 1 + n2), Scale \div 10)]

RECURSIVE DigitsOf(_)
DigitsOf(k) ==
  IF k < 10 THEN <<DigitChar[k + 1]>>
  ELSE Append(DigitsOf(k \div 10), DigitChar[(k % 10) + 1])

RECURSIVE Padded(_, _)
Padded(ds, width) == IF Len(ds) >= width THEN ds ELSE Padded(<<"0">> \o ds, width)

(* Number.toFixed(6) *)
toFixed(n) ==
  IF isNaN(n) THEN <<"N", "a", "N">>
  ELSE DigitsOf(n.whole) \o <<".">> \o Padded(DigitsOf(n.micro), Decimals)

(* n * priceFrom / priceTo, rounded to millionths *)
Converted(n, priceFrom, priceTo) ==
  IF isNaN(n) THEN NaN
  ELSE LET w1 == n.whole * priceFrom + ((n.micro * priceFrom) \div Scale)
           m1 == (n.micro * priceFrom) % Scale
           w2 == w1 \div priceTo
           num == (w1 % priceTo) * Scale + m1
           m2 == (2 * num + priceTo) \div (2 * priceTo)
       IN  IF m2 >= Scale THEN [whole |-> w2 + 1, micro |-> m2 - Scale]
           ELSE [whole |-> w2, micro |-> m2]

(* a validation that has no maximum *)
validateInputNoMaximum(value) ==
  IF value = <<>> THEN "Amount is required"
  ELSE LET num == parseFloat(value)
       IN  IF isNaN(num) \/ (num.whole = 0 /\ num.micro = 0)
             THEN "Amount must be a positive number"
             ELSE null

validateInput(value) ==
  IF value = <<>> THEN "Amount is required"
  ELSE LET num == parseFloat(value)
       IN  IF isNaN(num) \/ (num.whole = 0 /\ num.micro = 0)
             THEN "Amount must be a positive number"
           ELSE IF num.whole > AmountLimit
                   \/ (num.whole = AmountLimit /\ num.micro > 0)
             THEN "Amount is too large"
           ELSE null

getAvailableTokens == {t \in Tokens : prices[t] # 0}

(* the effect run after fromAmount, fromToken, toToken or prices changed:
   the errors and the amount to receive it leaves *)
Effect(fa, ft, tt, pr, err, ta) ==
  IF pr[ft] = 0 \/ pr[tt] = 0
    THEN [errors |-> [fromAmount |-> null, general |-> "PriceNotAvailableFor"],
          toAmount |-> <<>>]
    ELSE [errors |-> IF err.general = "PriceNotAvailable"
                       THEN [err EXCEPT !.general = null] ELSE err,
          toAmount |-> IF fa # <<>>
                         THEN toFixed(Converted(parseFloat(fa), pr[ft], pr[tt]))
                         ELSE <<>>]

(* --------------------------- resources API ----------------------------- *)
(* texts are sequences of characters; a field that the JSON body does not
   have is undefined, a JSON null or an SQL NULL is NULL *)
undefined == <<"undefined">>

NULL == <<"NULL">>

Active == <<"active">>

Inactive == <<"inactive">>

RECURSIVE trimStart(_)
trimStart(t) == IF t # <<>> /\ Head(t) = " " THEN trimStart(Tail(t)) ELSE t

RECURSIVE trimEnd(_)
trimEnd(t) ==
  IF t # <<>> /\ t[Len(t)] = " " THEN trimEnd(SubSeq(t, 1, Len(t) - 1)) ELSE t

(* a trim that removes nothing *)
trimNothing(t) == t

(* String.prototype.trim *)
trim(t) == trimEnd(trimStart(t))

(* the names, descriptions and statuses sent in request bodies *)
Names == {undefined, NULL, <<>>, <<" ">>, <<"a">>, <<" ", "b", " ">>}

Descriptions == {undefined, <<" ">>, <<"d", " ">>}

Statuses == {undefined, Inactive}

Bodies == [name : Names, description : Descriptions, status : Statuses]

NoBody == [name |-> undefined, description |-> undefined, status |-> undefined]

(* the :id path parameters sent: every id a row can have, one more, and a
   text that is not a number *)
IdParams ==
  {<<DigitChar[i + 1]>> : i \in 1..(MaxResources + 1)} \cup {<<"x">>}

NaNId == -1

(* parseInt: the integer written by the leading digits, NaN when there are none *)
parseInt(v) ==
  LET k == DigitRun(v, 1)
  IN  IF k = 0 THEN NaNId ELSE WholeValue(SubSeq(v, 1, k))

NoData == [id |-> 0]

NoReply == [status |-> 0, data |-> NoData]

(* !name *)
Falsy(t) == t \in {undefined, NULL, <<>>}

(* description?.trim() || null *)
TrimmedOrNull(t) == IF t \in {undefined, NULL} \/ trim(t) = <<>> THEN NULL ELSE trim(t)

(* status || 'active' *)
StatusOrActive(t) == IF Falsy(t) THEN Active ELSE t

(* ------------------------------ sum_to_n ------------------------------- *)
(* the arguments the functions are called with *)
Arguments == (0 - MaxN)..MaxN

NoSums == [a |-> -1, b |-> -1, c |-> -1]

(* a formula without the test of n <= 0 *)
sum_to_n_c_WithoutTest(m) == (m * (m + 1)) \div 2

(* sum_to_n_c: n * (n + 1) is even, the division is exact *)
sum_to_n_c(m) == IF m <= 0 THEN 0 ELSE (m * (m + 1)) \div 2

(* ------------------------------ Init ----------------------------------- *)
Init ==
  /\ pc = [w \in Workers |-> "idle"]
  /\ req = [w \in Workers |-> NoReq]
  /\ result = [w \in Workers |-> "none"]
  /\ newScore = [w \in Workers |-> 0]
  /\ rank = [w \in Workers |-> 0]
  /\ keyExpired = [w \in Workers |-> FALSE]
  /\ tx = [w \in Workers |-> "none"]
  /\ started = 0
  /\ action_logs = <<>>
  /\ scores = [u \in Users |-> 0]
  /\ rate = [u \in Users |-> 0]
  /\ passed = [u \in Users |-> 0]
  /\ cacheValid = FALSE
  /\ cache = NoCache
  /\ ttl = 0
  /\ cold = 0
  /\ published = <<>>
  /\ subscribers = {}
  /\ queues = [s \in Subs |-> <<>>]
  /\ pos = [s \in Subs |-> 0]
  /\ lastRecv = [s \in Subs |-> 0]
  /\ qpc = "idle"
  /\ qlimit = 0
  /\ qdata = <<>>
  /\ qres = NoResponse
  /\ touched = [w \in Workers |-> {}]
  /\ prices = NoPrices
  /\ loading = TRUE
  /\ submitting = FALSE
  /\ fromToken = "SWTH"
  /\ toToken = "ETH"
  /\ fromAmount = <<>>
  /\ toAmount = <<>>
  /\ errors = Effect(<<>>, "SWTH", "ETH", NoPrices, NoErrors, <<>>).errors
  /\ event = "mount"
  /\ pending = 0
  /\ showFromDropdown = FALSE
  /\ showToDropdown = FALSE
  /\ writer = "none"
  /\ resources = {}
  /\ sequence = 0
  /\ now = 0
  /\ lastResponse = NoReply
  /\ deleted = {}
  /\ arg = 0
  /\ spc = "idle"
  /\ loopI = 0
  /\ loopSum = 0
  /\ frames = <<>>
  /\ retval = 0
  /\ sums = NoSums

(* ------------------- order of the score update steps ------------------- *)
(* a broadcast issued before the transaction commits *)
StepAfterBroadcastEarly(p) ==
  CASE p = "validate" -> "dupcheck"
    [] p = "dupcheck" -> "actioncheck"
    [] p = "actioncheck" -> "ratecheck"
    [] p = "ratecheck" -> "rateincr"
    [] p = "rateincr" -> "tx_insert"
    [] p = "tx_insert" -> "tx_update"
    [] p = "tx_update" -> "broadcast"
    [] p = "broadcast" -> "tx_commit"
    [] p = "tx_commit" -> "cache"
    [] p = "cache" -> "respond"
    [] OTHER -> "done"

StepAfter(p) ==
  CASE p = "validate" -> "dupcheck"
    [] p = "dupcheck" -> "actioncheck"
    [] p = "actioncheck" -> "ratecheck"
    [] p = "ratecheck" -> "rateincr"
    [] p = "rateincr" -> "tx_insert"
    [] p = "tx_insert" -> "tx_update"
    [] p = "tx_update" -> "tx_commit"
    [] p = "tx_commit" -> "cache"
    [] p = "cache" -> "broadcast"
    [] p = "broadcast" -> "respond"
    [] OTHER -> "done"

Advance(w) == pc' = [pc EXCEPT ![w] = StepAfter(pc[w])]

(* an error response that is sent without returning from the handler *)
FailWithoutReturn(w, code) ==
  /\ pc' = [pc EXCEPT ![w] = StepAfter(pc[w])]
  /\ result' = [result EXCEPT ![w] = code]

(* the error response ends the request *)
Fail(w, code) ==
  /\ pc' = [pc EXCEPT ![w] = "done"]
  /\ result' = [result EXCEPT ![w] = code]

(* what the current request of w has changed so far, read off the step taken *)
Track(w) ==
  touched' = [touched EXCEPT ![w] = @
     \cup (IF action_logs' # action_logs THEN {"action_logs"} ELSE {})
     \cup (IF scores' # scores THEN {"scores"} ELSE {})
     \cup (IF <<cacheValid', cache'>> # <<cacheValid, cache>> THEN {"cache"} ELSE {})
     \cup (IF published' # published THEN {"published"} ELSE {})
     \cup (IF queues' # queues THEN {"queues"} ELSE {})]

(* ------------------------- request validation -------------------------- *)
(* the range constraint on scoreIncrement: points to add *)
InRangeAnyInteger(r) == TRUE

InRange(r) == r.inc > 0

(* the increment is within the maximum of its (allowed) action type *)
ActionAllowedNoMaximum(r) == r.type \in AllowedTypes

ActionAllowed(r) == r.type \in AllowedTypes /\ r.inc <= MaxIncrementOf(r.type)

(* ---------------------------- rate limiter ----------------------------- *)
LimitExceededOffByOne(count) == count > MaxCount

LimitExceeded(count) == count >= MaxCount

(* ------------------------ database transaction ------------------------- *)
RowOf(w) == [user |-> req[w].user, action |-> req[w].action,
             type |-> req[w].type, inc |-> req[w].inc]

(* another transaction holds an uncommitted insert of the same (user_id, action_id) *)
KeyLocked(w) ==
  \E v \in Workers \ {w} : tx[v] # "none" /\ KeyOf(v) = KeyOf(w)

(* a transaction that runs its UPDATE without waiting for the row *)
RowLockedNever(w) == FALSE

(* another transaction holds the row of this user in table scores *)
RowLocked(w) ==
  \E v \in Workers \ {w} : tx[v] = "updated" /\ req[v].user = req[w].user

(* an insert that was written outside the transaction survives the failure *)
RollbackLogsPartial(w) ==
  IF tx[w] # "none" THEN Append(action_logs, RowOf(w)) ELSE action_logs

(* table action_logs after the transaction of w is rolled back *)
RollbackLogs(w) == action_logs

(* a duplicate key that is not detected inside the transaction *)
UniqueViolationNever(w) == FALSE

(* the unique constraint on (user_id, action_id) rejects the insert *)
UniqueViolation(w) == KeyOf(w) \in LogKeys

(* a broadcast that is also sent to clients that have disconnected *)
RecipientsAll == Subs

(* a broadcast that reaches no client *)
RecipientsNone == {}

(* the clients a broadcast is sent to: all connected clients *)
Recipients == subscribers

(* a queue that refuses the new event when it is full *)
EnqueueDropNewest(q, e) == IF Len(q) >= QueueBound THEN q ELSE Append(q, e)

(* the bounded queue of a subscriber: when full, the oldest event is dropped *)
Enqueue(q, e) == IF Len(q) >= QueueBound THEN Append(Tail(q), e) ELSE Append(q, e)

(* a publisher that waits until every recipient has room *)
PublisherWaitsForRoom(w) == \E s \in Recipients : Len(queues[s]) >= QueueBound

(* publish returns without waiting for any subscriber *)
PublisherWaits(w) == FALSE

EventOf(w) == [user |-> req[w].user, action |-> req[w].action, score |-> newScore[w]]

(* ------------------------------ actions -------------------------------- *)
(* POST /api/scores/update arrives at a worker *)
Submit(w) ==
  /\ pc[w] = "idle"
  /\ started < MaxRequests
  /\ \E r \in Requests : req' = [req EXCEPT ![w] = r]
  /\ pc' = [pc EXCEPT ![w] = "validate"]
  /\ started' = started + 1
  /\ UNCHANGED <<result, newScore, rank, keyExpired, tx, touched>>
  /\ UNCHANGED <<storeVars, limiterVars, cacheVars, hubVars>>
  /\ UNCHANGED queryVars
  /\ UNCHANGED nonBoardVars

(* step 1: request validation *)
RequestValidation(w) ==
  /\ pc[w] = "validate"
  /\ IF InRange(req[w])
       THEN Advance(w) /\ UNCHANGED result
       ELSE Fail(w, "ValidationError")
  /\ UNCHANGED <<req, newScore, rank, keyExpired, tx, started>>
  /\ UNCHANGED <<storeVars, limiterVars, cacheVars, hubVars>>
  /\ Track(w)
  /\ UNCHANGED queryVars
  /\ UNCHANGED nonBoardVars

(* step 2: duplicate prevention, a query of action_logs *)
DuplicatePrevention(w) ==
  /\ pc[w] = "dupcheck"
  /\ IF KeyOf(w) \in LogKeys
       THEN Fail(w, "DuplicateAction")
       ELSE Advance(w) /\ UNCHANGED result
  /\ UNCHANGED <<req, newScore, rank, keyExpired, tx, started>>
  /\ UNCHANGED <<storeVars, limiterVars, cacheVars, hubVars>>
  /\ Track(w)
  /\ UNCHANGED queryVars
  /\ UNCHANGED nonBoardVars

(* step 3: action validation *)
ActionValidation(w) ==
  /\ pc[w] = "actioncheck"
  /\ IF ActionAllowed(req[w])
       THEN Advance(w) /\ UNCHANGED result
       ELSE Fail(w, "ValidationError")
  /\ UNCHANGED <<req, newScore, rank, keyExpired, tx, started>>
  /\ UNCHANGED <<storeVars, limiterVars, cacheVars, hubVars>>
  /\ Track(w)
  /\ UNCHANGED queryVars
  /\ UNCHANGED nonBoardVars

(* step 4: rate limiting check, the read of the user's counter *)
RateLimitCheck(w) ==
  /\ pc[w] = "ratecheck"
  /\ IF LimitExceeded(rate[req[w].user])
       THEN /\ Fail(w, "RateLimited")
            /\ UNCHANGED passed
       ELSE /\ Advance(w)
            /\ passed' = [passed EXCEPT ![req[w].user] = @ + 1]
            /\ UNCHANGED result
  /\ UNCHANGED <<req, newScore, rank, keyExpired, tx, started, rate>>
  /\ UNCHANGED <<storeVars, cacheVars, hubVars>>
  /\ Track(w)
  /\ UNCHANGED queryVars
  /\ UNCHANGED nonBoardVars

(* step 4: "increment counter if within limit"; the counter of a window that
   has ended since the read has expired *)
RateLimitIncrement(w) ==
  /\ pc[w] = "rateincr"
  /\ rate' = IF keyExpired[w]
               THEN rate
               ELSE [rate EXCEPT ![req[w].user] = @ + 1]
  /\ keyExpired' = [keyExpired EXCEPT ![w] = FALSE]
  /\ Advance(w)
  /\ UNCHANGED <<req, result, newScore, rank, tx, started, passed>>
  /\ UNCHANGED <<storeVars, cacheVars, hubVars>>
  /\ Track(w)
  /\ UNCHANGED queryVars
  /\ UNCHANGED nonBoardVars

(* step 5: begin transaction, insert action log *)
TxInsert(w) ==
  /\ pc[w] = "tx_insert"
  /\ IF UniqueViolation(w)
       THEN /\ Fail(w, "DuplicateAction")
            /\ UNCHANGED tx
       ELSE /\ ~KeyLocked(w)
            /\ tx' = [tx EXCEPT ![w] = "inserted"]
            /\ Advance(w)
            /\ UNCHANGED result
  /\ UNCHANGED <<req, newScore, rank, keyExpired, started>>
  /\ UNCHANGED <<storeVars, limiterVars, cacheVars, hubVars>>
  /\ Track(w)
  /\ UNCHANGED queryVars
  /\ UNCHANGED nonBoardVars

(* step 5: UPDATE scores SET score = score + ? WHERE user_id = ?, then
   calculate the new rank, inside the transaction *)
TxUpdate(w) ==
  /\ pc[w] = "tx_update"
  /\ ~RowLocked(w)
  /\ newScore' = [newScore EXCEPT ![w] = scores[req[w].user] + req[w].inc]
  /\ \E r \in RankRange([scores EXCEPT ![req[w].user] = newScore'[w]], req[w].user) :
       rank' = [rank EXCEPT ![w] = r]
  /\ tx' = [tx EXCEPT ![w] = "updated"]
  /\ Advance(w)
  /\ UNCHANGED <<req, result, keyExpired, started>>
  /\ UNCHANGED <<storeVars, limiterVars, cacheVars, hubVars>>
  /\ Track(w)
  /\ UNCHANGED queryVars
  /\ UNCHANGED nonBoardVars

(* step 5: commit transaction *)
TxCommit(w) ==
  /\ pc[w] = "tx_commit"
  /\ action_logs' = Append(action_logs, RowOf(w))
  /\ scores' = [scores EXCEPT ![req[w].user] = newScore[w]]
  /\ tx' = [tx EXCEPT ![w] = "none"]
  /\ Advance(w)
  /\ UNCHANGED <<req, result, newScore, rank, keyExpired, started>>
  /\ UNCHANGED <<limiterVars, cacheVars, hubVars>>
  /\ Track(w)
  /\ UNCHANGED queryVars
  /\ UNCHANGED nonBoardVars

(* the transaction fails (store failure, crash of the worker): rollback, 500 *)
TxFail(w) ==
  /\ tx[w] # "none" \/ pc[w] = "tx_insert"
  /\ action_logs' = RollbackLogs(w)
  /\ tx' = [tx EXCEPT ![w] = "none"]
  /\ Fail(w, "InternalError")
  /\ UNCHANGED <<req, newScore, rank, keyExpired, started, scores>>
  /\ UNCHANGED <<limiterVars, cacheVars, hubVars>>
  /\ Track(w)
  /\ UNCHANGED queryVars
  /\ UNCHANGED nonBoardVars

(* a recompute that clears the shared sequence and fills it entry by entry:
   what a reader finds before the last entry is written *)
SwappedInPlace(old, new) == SubSeq(new, 1, Len(new) - 1)

(* copy-on-recompute pointer swap: the recompute builds its snapshot aside
   and replaces the cached sequence as a whole *)
Swapped(old, new) == new

(* a cache step that leaves the cached top-K as it is *)
CacheUpdateKeepsCache(w) ==
  /\ pc[w] = "cache"
  /\ Advance(w)
  /\ UNCHANGED <<req, result, newScore, rank, keyExpired, tx, started>>
  /\ UNCHANGED <<storeVars, limiterVars, cacheVars, hubVars>>
  /\ Track(w)
  /\ UNCHANGED queryVars
  /\ UNCHANGED nonBoardVars

(* step 6: cache update, the top-K key is rewritten with a fresh expiration *)
CacheUpdate(w) ==
  /\ pc[w] = "cache"
  /\ \E s \in TopLists(scores, TopK) : cache' = Swapped(cache, Snapshot(scores, s))
  /\ cacheValid' = TRUE
  /\ ttl' = Epsilon
  /\ cold' = 0
  /\ writer' = "notify"
  /\ Advance(w)
  /\ UNCHANGED <<req, result, newScore, rank, keyExpired, tx, started>>
  /\ UNCHANGED <<storeVars, limiterVars, hubVars>>
  /\ Track(w)
  /\ UNCHANGED queryVars
  /\ UNCHANGED nonBoardVars

(* step 7: publish the update event, broadcast to all connected clients *)
Broadcast(w) ==
  /\ pc[w] = "broadcast"
  /\ published' = Append(published, EventOf(w))
  /\ ~PublisherWaits(w)
  /\ queues' = [s \in Subs |-> IF s \in Recipients
                                 THEN Enqueue(queues[s], EventOf(w))
                                 ELSE queues[s]]
  /\ pos' = [s \in Subs |-> IF s \in subscribers /\ Len(queues[s]) >= QueueBound
                              THEN pos[s] + 1 ELSE pos[s]]
  /\ Advance(w)
  /\ UNCHANGED <<req, result, newScore, rank, keyExpired, tx, started>>
  /\ UNCHANGED <<storeVars, limiterVars, cacheVars>>
  /\ UNCHANGED <<subscribers, lastRecv>>
  /\ Track(w)
  /\ UNCHANGED queryVars
  /\ UNCHANGED nonBoardVars

(* step 8: success response with new score and rank *)
Respond(w) ==
  /\ pc[w] = "respond"
  /\ result' = [result EXCEPT ![w] = "Success"]
  /\ Advance(w)
  /\ UNCHANGED <<req, newScore, rank, keyExpired, tx, started>>
  /\ UNCHANGED <<storeVars, limiterVars, cacheVars, hubVars>>
  /\ Track(w)
  /\ UNCHANGED queryVars
  /\ UNCHANGED nonBoardVars

(* the response has been sent; the worker takes the next request *)
Finish(w) ==
  /\ pc[w] = "done"
  /\ pc' = [pc EXCEPT ![w] = "idle"]
  /\ req' = [req EXCEPT ![w] = NoReq]
  /\ result' = [result EXCEPT ![w] = "none"]
  /\ newScore' = [newScore EXCEPT ![w] = 0]
  /\ rank' = [rank EXCEPT ![w] = 0]
  /\ touched' = [touched EXCEPT ![w] = {}]
  /\ UNCHANGED <<keyExpired, tx, started>>
  /\ UNCHANGED <<storeVars, limiterVars, cacheVars, hubVars>>
  /\ UNCHANGED queryVars
  /\ UNCHANGED nonBoardVars

(* the rate-limit time window ends: the counters of the old window expire *)
NextWindow ==
  /\ rate' = [u \in Users |-> 0]
  /\ passed' = [u \in Users |-> 0]
  /\ keyExpired' = [w \in Workers |-> pc[w] = "rateincr"]
  /\ UNCHANGED <<pc, req, result, newScore, rank, tx, started>>
  /\ UNCHANGED <<storeVars, cacheVars, hubVars, touched>>
  /\ UNCHANGED queryVars
  /\ UNCHANGED nonBoardVars

(* the TTL of the cached leaderboard runs out *)
CacheExpire ==
  /\ cacheValid
  /\ cacheValid' = FALSE
  /\ cache' = NoCache
  /\ ttl' = 0
  /\ cold' = 0
  /\ writer' = "none"
  /\ UNCHANGED <<workerVars, storeVars, limiterVars, hubVars, touched>>
  /\ UNCHANGED queryVars
  /\ UNCHANGED nonBoardVars

(* a client connects to /api/scores/stream *)
Subscribe(s) ==
  /\ s \notin subscribers
  /\ subscribers' = subscribers \cup {s}
  /\ queues' = [queues EXCEPT ![s] = <<>>]
  /\ pos' = [pos EXCEPT ![s] = Len(published)]
  /\ lastRecv' = [lastRecv EXCEPT ![s] = 0]
  /\ UNCHANGED published
  /\ UNCHANGED <<workerVars, storeVars, limiterVars, cacheVars, touched>>
  /\ UNCHANGED queryVars
  /\ UNCHANGED nonBoardVars

(* the client disconnects *)
Unsubscribe(s) ==
  /\ s \in subscribers
  /\ subscribers' = subscribers \ {s}
  /\ queues' = [queues EXCEPT ![s] = <<>>]
  /\ pos' = [pos EXCEPT ![s] = Len(published)]
  /\ lastRecv' = [lastRecv EXCEPT ![s] = 0]
  /\ UNCHANGED published
  /\ UNCHANGED <<workerVars, storeVars, limiterVars, cacheVars, touched>>
  /\ UNCHANGED queryVars
  /\ UNCHANGED nonBoardVars

(* a stream that takes the next update off the queue without the client
   receiving it *)
DeliverSkipsUpdate(s) ==
  /\ s \in subscribers
  /\ queues[s] # <<>>
  /\ queues' = [queues EXCEPT ![s] = Tail(queues[s])]
  /\ pos' = [pos EXCEPT ![s] = @ + 1]
  /\ UNCHANGED <<published, subscribers, lastRecv>>
  /\ UNCHANGED <<workerVars, storeVars, limiterVars, cacheVars, touched>>
  /\ UNCHANGED queryVars
  /\ UNCHANGED nonBoardVars

(* the client receives the next update of its stream *)
Deliver(s) ==
  /\ s \in subscribers
  /\ queues[s] # <<>>
  /\ queues' = [queues EXCEPT ![s] = Tail(queues[s])]
  /\ pos' = [pos EXCEPT ![s] = @ + 1]
  /\ lastRecv' = [lastRecv EXCEPT ![s] = pos[s] + 1]
  /\ UNCHANGED <<published, subscribers>>
  /\ UNCHANGED <<workerVars, storeVars, limiterVars, cacheVars, touched>>
  /\ UNCHANGED queryVars
  /\ UNCHANGED nonBoardVars

(* a key that never expires *)
RemainingForever(t) == t

(* the time to live of a key after one more clock tick *)
Remaining(t) == t - 1

(* the data equal a result the leaderboard query has on the present scores *)
Current(data) == \E s \in TopLists(scores, TopK) : data = Snapshot(scores, s)

(* the clock advances by one tick: the key gets older and expires when its
   time to live is used up. A leaderboard query is short against the time to
   live (5-10 seconds): no tick falls between its database query and its
   write to the cache. *)
Tick ==
  /\ cacheValid
  /\ qpc # "store"
  /\ IF Remaining(ttl) = 0
       THEN /\ cacheValid' = FALSE /\ cache' = NoCache /\ ttl' = 0 /\ cold' = 0
            /\ writer' = "none"
       ELSE /\ ttl' = Remaining(ttl)
            /\ cold' = IF Current(cache) THEN 0 ELSE Min(cold + 1, Epsilon + 1)
            /\ UNCHANGED <<cacheValid, cache, writer>>
  /\ UNCHANGED <<workerVars, storeVars, limiterVars, hubVars, touched>>
  /\ UNCHANGED queryVars
  /\ UNCHANGED nonBoardVars

(* --------------------- top 10 leaderboard query ------------------------ *)
(* step 1: check the cache; on a hit that has not expired return cached data *)
QueryCacheCheck(limit) ==
  /\ qpc = "idle"
  /\ qlimit' = limit
  /\ IF cacheValid
       THEN qpc' = "done" /\ qres' = TopResponse(cache, limit)
       ELSE qpc' = "db" /\ qres' = qres
  /\ UNCHANGED qdata
  /\ UNCHANGED <<workerVars, storeVars, limiterVars, cacheVars, hubVars, touched>>
  /\ UNCHANGED nonBoardVars

(* step 2: on a cache miss query the database, ORDER BY s.score DESC LIMIT 10 *)
QueryDatabase ==
  /\ qpc = "db"
  /\ \E s \in TopLists(scores, TopK) : qdata' = Snapshot(scores, s)
  /\ qpc' = "store"
  /\ UNCHANGED <<qlimit, qres>>
  /\ UNCHANGED <<workerVars, storeVars, limiterVars, cacheVars, hubVars, touched>>
  /\ UNCHANGED nonBoardVars

(* step 2: store the result in the cache with its TTL and return it *)
QueryStore ==
  /\ qpc = "store"
  /\ cache' = Swapped(cache, qdata)
  /\ cacheValid' = TRUE
  /\ ttl' = Epsilon
  /\ cold' = 0
  /\ writer' = "query"
  /\ qres' = TopResponse(qdata, qlimit)
  /\ qpc' = "done"
  /\ UNCHANGED <<qlimit, qdata>>
  /\ UNCHANGED <<workerVars, storeVars, limiterVars, hubVars, touched>>
  /\ UNCHANGED nonBoardVars

(* the response has been sent *)
QueryFinish ==
  /\ qpc = "done"
  /\ qpc' = "idle"
  /\ qlimit' = 0
  /\ qdata' = <<>>
  /\ qres' = NoResponse
  /\ UNCHANGED <<workerVars, storeVars, limiterVars, cacheVars, hubVars, touched>>
  /\ UNCHANGED nonBoardVars

Query ==
  \/ \E limit \in Limits : QueryCacheCheck(limit)
  \/ QueryDatabase
  \/ QueryStore
  \/ QueryFinish

Pipeline(w) ==
  \/ RequestValidation(w)
  \/ DuplicatePrevention(w)
  \/ ActionValidation(w)
  \/ RateLimitCheck(w)
  \/ RateLimitIncrement(w)
  \/ TxInsert(w)
  \/ TxUpdate(w)
  \/ TxCommit(w)
  \/ TxFail(w)
  \/ CacheUpdate(w)
  \/ Broadcast(w)
  \/ Respond(w)
  \/ Finish(w)

Environment ==
  \/ NextWindow
  \/ CacheExpire
  \/ \E s \in Subs : Subscribe(s) \/ Unsubscribe(s) \/ Deliver(s)

Next ==
  \/ \E w \in Workers : Submit(w)
  \/ \E w \in Workers : Pipeline(w)
  \/ Environment

Spec == Init /\ [][Next]_vars

(* every connected client keeps reading its stream *)
Draining == \A s \in Subs : WF_vars(Deliver(s))

(* one request at a time: a request is taken only when no other is in progress *)
SubmitAlone(w) ==
  /\ \A v \in Workers \ {w} : pc[v] = "idle"
  /\ Submit(w)

NextSeq ==
  \/ \E w \in Workers : SubmitAlone(w)
  \/ \E w \in Workers : Pipeline(w)
  \/ Environment

SpecSeq == Init /\ [][NextSeq]_vars

SpecSeqLive == SpecSeq /\ Draining

(* leaderboard queries next to calls handled one at a time, within one rate
   limit window and with no client connected to the stream *)
NextQuery ==
  \/ \E w \in Workers : SubmitAlone(w)
  \/ \E w \in Workers : Pipeline(w)
  \/ CacheExpire
  \/ Query

SpecQuery == Init /\ [][NextQuery]_vars

(* the same with the clock: the cache expires by its time to live *)
NextTimed ==
  \/ \E w \in Workers : SubmitAlone(w)
  \/ \E w \in Workers : Pipeline(w)
  \/ Tick
  \/ Query

SpecTimed == Init /\ [][NextTimed]_vars

(* ------------------------- swap form handlers -------------------------- *)
(* the state after the component rendered again: the effect has run if one of
   its dependencies changed *)
Rendered(fa, ft, tt, pr, err, ta) ==
  IF <<fa, ft, tt, pr>> # <<fromAmount, fromToken, toToken, prices>>
    THEN Effect(fa, ft, tt, pr, err, ta)
    ELSE [errors |-> err, toAmount |-> ta]

(* the amounts of the model stay below MaxMagnitude *)
Bounded(ta) == parseFloat(ta).whole <= MaxMagnitude

(* fetchPrices: the prices arrive *)
FetchPrices(pm) ==
  /\ loading
  /\ prices' = pm
  /\ loading' = FALSE
  /\ LET r == Rendered(fromAmount, fromToken, toToken, pm, errors, toAmount)
     IN  errors' = r.errors /\ toAmount' = r.toAmount
  /\ event' = "fetchPrices"
  /\ UNCHANGED <<submitting, fromToken, toToken, fromAmount>>
  /\ UNCHANGED <<pending, showFromDropdown, showToDropdown>>
  /\ UNCHANGED nonFormVars

(* fetchPrices: the request fails *)
FetchFails ==
  /\ loading
  /\ loading' = FALSE
  /\ errors' = [fromAmount |-> null, general |-> "FailedToLoad"]
  /\ event' = "fetchPrices"
  /\ UNCHANGED <<prices, submitting, fromToken, toToken, fromAmount, toAmount>>
  /\ UNCHANGED <<pending, showFromDropdown, showToDropdown>>
  /\ UNCHANGED nonFormVars

(* the amount field is edited; it is disabled while submitting *)
handleFromAmountChange(value) ==
  /\ ~loading /\ ~submitting
  /\ IF value = <<>> \/ MatchesAmountPattern(value)
       THEN LET r == Rendered(value, fromToken, toToken, prices,
                              [errors EXCEPT !.fromAmount = validateInput(value)],
                              toAmount)
            IN  /\ fromAmount' = value
                /\ errors' = r.errors
                /\ toAmount' = r.toAmount
                /\ Bounded(r.toAmount)
       ELSE UNCHANGED <<fromAmount, errors, toAmount>>
  /\ event' = "handleFromAmountChange"
  /\ UNCHANGED <<prices, loading, submitting, fromToken, toToken>>
  /\ UNCHANGED <<pending, showFromDropdown, showToDropdown>>
  /\ UNCHANGED nonFormVars

(* a token that has a price is picked in the selector of the token to send *)
SelectFromToken(token) ==
  /\ ~loading
  /\ token \in getAvailableTokens
  /\ fromToken' = token
  /\ LET r == Rendered(fromAmount, token, toToken, prices, errors, toAmount)
     IN  errors' = r.errors /\ toAmount' = r.toAmount /\ Bounded(r.toAmount)
  /\ event' = "setFromToken"
  /\ UNCHANGED <<prices, loading, submitting, toToken, fromAmount>>
  /\ showFromDropdown' = FALSE
  /\ UNCHANGED <<pending, showToDropdown>>
  /\ UNCHANGED nonFormVars

(* a token that has a price is picked in the selector of the token to receive *)
SelectToToken(token) ==
  /\ ~loading
  /\ token \in getAvailableTokens
  /\ toToken' = token
  /\ LET r == Rendered(fromAmount, fromToken, token, prices, errors, toAmount)
     IN  errors' = r.errors /\ toAmount' = r.toAmount /\ Bounded(r.toAmount)
  /\ event' = "setToToken"
  /\ UNCHANGED <<prices, loading, submitting, fromToken, fromAmount>>
  /\ showToDropdown' = FALSE
  /\ UNCHANGED <<pending, showFromDropdown>>
  /\ UNCHANGED nonFormVars

(* the swap button, disabled while submitting: the tokens change places and
   the amount to receive becomes the amount to send *)
handleSwapTokens ==
  /\ ~loading /\ ~submitting
  /\ fromToken' = toToken
  /\ toToken' = fromToken
  /\ fromAmount' = toAmount
  /\ LET r == Rendered(toAmount, toToken, fromToken, prices, NoErrors, toAmount)
     IN  errors' = r.errors /\ toAmount' = r.toAmount /\ Bounded(r.toAmount)
  /\ event' = "handleSwapTokens"
  /\ UNCHANGED <<prices, loading, submitting>>
  /\ UNCHANGED <<pending, showFromDropdown, showToDropdown>>
  /\ UNCHANGED nonFormVars

(* a submit button that is not disabled while a submission is in progress *)
SubmitEnabledWhileSubmitting ==
  /\ fromAmount # <<>>
  /\ errors.fromAmount = null
  /\ fromToken # toToken

(* the submit button is enabled *)
SubmitEnabled ==
  /\ ~submitting
  /\ fromAmount # <<>>
  /\ errors.fromAmount = null
  /\ fromToken # toToken

(* the form is submitted *)
handleSubmit ==
  /\ ~loading
  /\ SubmitEnabled
  /\ LET fromError == validateInput(fromAmount)
     IN  IF fromError # null
           THEN /\ errors' = [fromAmount |-> fromError, general |-> null]
                /\ UNCHANGED <<submitting, pending>>
         ELSE IF prices[fromToken] = 0 \/ prices[toToken] = 0
           THEN /\ errors' = [fromAmount |-> null, general |-> "PriceNotAvailable"]
                /\ UNCHANGED <<submitting, pending>>
         ELSE IF fromToken = toToken
           THEN /\ errors' = [fromAmount |-> null, general |-> "SameToken"]
                /\ UNCHANGED <<submitting, pending>>
         ELSE /\ submitting' = TRUE
              /\ errors' = NoErrors
              /\ pending < MaxPending
              /\ pending' = pending + 1
  /\ event' = "handleSubmit"
  /\ UNCHANGED <<prices, loading, fromToken, toToken, fromAmount, toAmount>>
  /\ UNCHANGED <<showFromDropdown, showToDropdown>>
  /\ UNCHANGED nonFormVars

(* the simulated backend call returns: the form is reset *)
SubmitCompletes ==
  /\ pending > 0
  /\ pending' = pending - 1
  /\ submitting' = FALSE
  /\ fromAmount' = <<>>
  /\ LET r == Rendered(<<>>, fromToken, toToken, prices, errors, <<>>)
     IN  errors' = r.errors /\ toAmount' = r.toAmount
  /\ event' = "submitted"
  /\ UNCHANGED <<prices, loading, fromToken, toToken>>
  /\ UNCHANGED <<showFromDropdown, showToDropdown>>
  /\ UNCHANGED nonFormVars

(* a token-select button that leaves the other dropdown as it is *)
ToggleFromDropdownKeepsOther ==
  /\ ~loading
  /\ showFromDropdown' = ~showFromDropdown
  /\ event' = "toggleFrom"
  /\ UNCHANGED <<prices, loading, submitting, fromToken, toToken, fromAmount,
                 toAmount, errors, pending, showToDropdown>>
  /\ UNCHANGED nonFormVars

(* the token-select button of the token to send: toggles its dropdown and
   closes the other one *)
ToggleFromDropdown ==
  /\ ~loading
  /\ showFromDropdown' = ~showFromDropdown
  /\ showToDropdown' = FALSE
  /\ event' = "toggleFrom"
  /\ UNCHANGED <<prices, loading, submitting, fromToken, toToken, fromAmount,
                 toAmount, errors, pending>>
  /\ UNCHANGED nonFormVars

(* the token-select button of the token to receive *)
ToggleToDropdown ==
  /\ ~loading
  /\ showToDropdown' = ~showToDropdown
  /\ showFromDropdown' = FALSE
  /\ event' = "toggleTo"
  /\ UNCHANGED <<prices, loading, submitting, fromToken, toToken, fromAmount,
                 toAmount, errors, pending>>
  /\ UNCHANGED nonFormVars

NextSwap ==
  \/ \E pm \in PriceMaps : FetchPrices(pm)
  \/ FetchFails
  \/ \E value \in TypedValues : handleFromAmountChange(value)
  \/ \E token \in Tokens : SelectFromToken(token)
  \/ \E token \in Tokens : SelectToToken(token)
  \/ handleSwapTokens
  \/ handleSubmit
  \/ SubmitCompletes
  \/ ToggleFromDropdown
  \/ ToggleToDropdown

SpecSwap == Init /\ [][NextSwap]_vars

(* --------------------------- resources API ----------------------------- *)
(* SELECT * FROM resources WHERE id = ? *)
RowsWithId(id) == {r \in resources : r.id = id}

RowWithId(id) == CHOOSE r \in resources : r.id = id

(* an INTEGER PRIMARY KEY without AUTOINCREMENT: one more than the largest
   id in the table *)
NextIdLargestInTable ==
  IF resources = {} THEN 1
  ELSE 1 + (CHOOSE m \in {r.id : r \in resources} : \A r \in resources : r.id <= m)

(* INTEGER PRIMARY KEY AUTOINCREMENT: one more than the largest id the table
   ever had *)
NextId == sequence + 1

(* POST /api/resources *)
createResource(body) ==
  /\ IF Falsy(body.name) \/ trim(body.name) = <<>>
       THEN /\ lastResponse' = [status |-> 400, data |-> NoData]
            /\ UNCHANGED <<resources, sequence>>
       ELSE LET newResource ==
                  [id |-> NextId,
                   name |-> trim(body.name),
                   description |-> TrimmedOrNull(body.description),
                   status |-> StatusOrActive(body.status),
                   createdAt |-> now,
                   updatedAt |-> now]
            IN  /\ NextId <= MaxResources
                /\ resources' = resources \cup {newResource}
                /\ sequence' = NextId
                /\ lastResponse' = [status |-> 201, data |-> newResource]
  /\ UNCHANGED <<now, deleted>>
  /\ UNCHANGED nonResourceVars

(* GET /api/resources/:id *)
getResource(param) ==
  LET id == parseInt(param)
  IN  /\ lastResponse' =
           IF id = NaNId THEN [status |-> 400, data |-> NoData]
           ELSE IF RowsWithId(id) = {} THEN [status |-> 404, data |-> NoData]
           ELSE [status |-> 200, data |-> RowWithId(id)]
      /\ UNCHANGED <<resources, sequence, now, deleted>>
      /\ UNCHANGED nonResourceVars

(* the row an UPDATE that sets every column, supplied or not, leaves *)
UpdatedAllColumns(existing, body) ==
  [existing EXCEPT !.name = trim(body.name),
                   !.description = TrimmedOrNull(body.description),
                   !.status = body.status,
                   !.updatedAt = now]

(* UPDATE resources SET <the supplied fields>, updatedAt = CURRENT_TIMESTAMP *)
Updated(existing, body) ==
  [existing EXCEPT
     !.name = IF body.name # undefined THEN trim(body.name) ELSE @,
     !.description = IF body.description # undefined
                       THEN TrimmedOrNull(body.description) ELSE @,
     !.status = IF body.status # undefined THEN body.status ELSE @,
     !.updatedAt = now]

(* PUT /api/resources/:id; a null name makes name.trim() throw, which the
   handler answers with 500 *)
updateResource(param, body) ==
  LET id == parseInt(param)
  IN  /\ IF id = NaNId
           THEN /\ lastResponse' = [status |-> 400, data |-> NoData]
                /\ UNCHANGED resources
         ELSE IF RowsWithId(id) = {}
           THEN /\ lastResponse' = [status |-> 404, data |-> NoData]
                /\ UNCHANGED resources
         ELSE IF body.name = NULL
           THEN /\ lastResponse' = [status |-> 500, data |-> NoData]
                /\ UNCHANGED resources
         ELSE IF body.name # undefined /\ trim(body.name) = <<>>
           THEN /\ lastResponse' = [status |-> 400, data |-> NoData]
                /\ UNCHANGED resources
         ELSE IF body = NoBody
           THEN /\ lastResponse' = [status |-> 400, data |-> NoData]
                /\ UNCHANGED resources
         ELSE LET updated == Updated(RowWithId(id), body)
              IN  /\ resources' = (resources \ RowsWithId(id)) \cup {updated}
                  /\ lastResponse' = [status |-> 200, data |-> updated]
      /\ UNCHANGED <<sequence, now, deleted>>
      /\ UNCHANGED nonResourceVars

(* DELETE /api/resources/:id *)
deleteResource(param) ==
  LET id == parseInt(param)
  IN  /\ IF id = NaNId
           THEN /\ lastResponse' = [status |-> 400, data |-> NoData]
                /\ UNCHANGED <<resources, deleted>>
         ELSE IF RowsWithId(id) = {}
           THEN /\ lastResponse' = [status |-> 404, data |-> NoData]
                /\ UNCHANGED <<resources, deleted>>
         ELSE /\ resources' = resources \ RowsWithId(id)
              /\ deleted' = deleted \cup {id}
              /\ lastResponse' = [status |-> 200, data |-> NoData]
      /\ UNCHANGED <<sequence, now>>
      /\ UNCHANGED nonResourceVars

(* CURRENT_TIMESTAMP moves on by a second *)
ClockTick ==
  /\ now < MaxClock
  /\ now' = now + 1
  /\ UNCHANGED <<resources, sequence, lastResponse, deleted>>
  /\ UNCHANGED nonResourceVars

NextResources ==
  \/ \E body \in Bodies : createResource(body)
  \/ \E param \in IdParams : getResource(param)
  \/ \E param \in IdParams, body \in Bodies : updateResource(param, body)
  \/ \E param \in IdParams : deleteResource(param)
  \/ ClockTick

SpecResources == Init /\ [][NextResources]_vars

(* ------------------------------ sum_to_n ------------------------------- *)
(* the three functions are called with the same argument, one after another *)
CallSum(m) ==
  /\ spc \in {"idle", "done"}
  /\ arg' = m
  /\ spc' = "a"
  /\ loopI' = 0
  /\ loopSum' = 0
  /\ frames' = <<>>
  /\ retval' = 0
  /\ sums' = NoSums
  /\ UNCHANGED nonSumVars

(* sum_to_n_a: the test of n <= 0 and the initialisation of the loop *)
sum_to_n_a_Enter ==
  /\ spc = "a"
  /\ IF arg <= 0
       THEN /\ sums' = [sums EXCEPT !.a = 0]
            /\ spc' = "b"
            /\ UNCHANGED <<loopI, loopSum>>
       ELSE /\ loopSum' = 0
            /\ loopI' = 1
            /\ spc' = "a_loop"
            /\ UNCHANGED sums
  /\ UNCHANGED <<arg, frames, retval>>
  /\ UNCHANGED nonSumVars

(* sum_to_n_a: one test of i <= n with the body sum += i; i++, or the return *)
sum_to_n_a_Loop ==
  /\ spc = "a_loop"
  /\ IF loopI <= arg
       THEN /\ loopSum' = loopSum + loopI
            /\ loopI' = loopI + 1
            /\ UNCHANGED <<spc, sums>>
       ELSE /\ sums' = [sums EXCEPT !.a = loopSum]
            /\ spc' = "b"
            /\ UNCHANGED <<loopI, loopSum>>
  /\ UNCHANGED <<arg, frames, retval>>
  /\ UNCHANGED nonSumVars

(* sum_to_n_b is called with n *)
sum_to_n_b_Call ==
  /\ spc = "b"
  /\ frames' = <<arg>>
  /\ spc' = "b_body"
  /\ UNCHANGED <<arg, loopI, loopSum, retval, sums>>
  /\ UNCHANGED nonSumVars

(* sum_to_n_b: the body of the call on top of the stack: a base case returns,
   otherwise sum_to_n_b(n - 1) is called *)
sum_to_n_b_Body ==
  /\ spc = "b_body"
  /\ LET k == frames[Len(frames)]
     IN  IF k <= 0
           THEN /\ retval' = 0
                /\ frames' = SubSeq(frames, 1, Len(frames) - 1)
                /\ spc' = "b_return"
         ELSE IF k = 1
           THEN /\ retval' = 1
                /\ frames' = SubSeq(frames, 1, Len(frames) - 1)
                /\ spc' = "b_return"
         ELSE /\ frames' = Append(frames, k - 1)
              /\ UNCHANGED <<retval, spc>>
  /\ UNCHANGED <<arg, loopI, loopSum, sums>>
  /\ UNCHANGED nonSumVars

(* sum_to_n_b: a call has returned: the caller returns n + the value, or the
   outermost call has returned *)
sum_to_n_b_Return ==
  /\ spc = "b_return"
  /\ IF frames = <<>>
       THEN /\ sums' = [sums EXCEPT !.b = retval]
            /\ spc' = "c"
            /\ UNCHANGED <<frames, retval>>
       ELSE /\ retval' = frames[Len(frames)] + retval
            /\ frames' = SubSeq(frames, 1, Len(frames) - 1)
            /\ UNCHANGED <<spc, sums>>
  /\ UNCHANGED <<arg, loopI, loopSum>>
  /\ UNCHANGED nonSumVars

(* sum_to_n_c is called with n and returns *)
sum_to_n_c_Call ==
  /\ spc = "c"
  /\ sums' = [sums EXCEPT !.c = sum_to_n_c(arg)]
  /\ spc' = "done"
  /\ UNCHANGED <<arg, loopI, loopSum, frames, retval>>
  /\ UNCHANGED nonSumVars

StepSum ==
  \/ sum_to_n_a_Enter
  \/ sum_to_n_a_Loop
  \/ sum_to_n_b_Call
  \/ sum_to_n_b_Body
  \/ sum_to_n_b_Return
  \/ sum_to_n_c_Call

NextSum ==
  \/ \E m \in Arguments : CallSum(m)
  \/ StepSum

(* a function that has been called keeps running *)
SpecSum == Init /\ [][NextSum]_vars /\ WF_vars(StepSum)

(* ------------------------------ claims --------------------------------- *)
Done(w) == pc[w] = "done"

FailureCodes == {"ValidationError", "DuplicateAction", "RateLimited", "InternalError"}

RowsOfKey(u, a) == {i \in 1..Len(action_logs) :
                      action_logs[i].user = u /\ action_logs[i].action = a}

(* the increment of the accepted call of (u, a), 0 when none was accepted *)
AcceptedInc(u, a) ==
  IF RowsOfKey(u, a) = {} THEN 0
  ELSE action_logs[CHOOSE i \in RowsOfKey(u, a) : \A j \in RowsOfKey(u, a) : i <= j].inc

RECURSIVE SumAccepted(_, _)
SumAccepted(u, as) ==
  IF as = {} THEN 0
  ELSE LET a == CHOOSE x \in as : TRUE
       IN AcceptedInc(u, a) + SumAccepted(u, as \ {a})

(* the inputs the claim names: unknown action type, non-positive increment,
   increment above the maximum of the type *)
InvalidRequest(r) ==
  \/ r.type \notin AllowedTypes
  \/ r.inc <= 0
  \/ r.inc > MaxIncrementOf(r.type)

(* C1: a (user, actionId) pair is committed at most once; of two calls with
   the same pair never both succeed, a call answered DuplicateAction has its
   pair committed, when exactly two calls were made with the same pair and
   both got through to the duplicate handling one succeeded and the other got
   DuplicateAction; and the user's score counts each committed pair once, by
   the increment of the accepted call. *)
C1_DuplicateRejected ==
  /\ \A u \in Users, a \in ActionIds : Cardinality(RowsOfKey(u, a)) <= 1
  /\ \A w \in Workers : Done(w) /\ result[w] = "DuplicateAction" => KeyOf(w) \in LogKeys
  /\ \A w \in Workers : Done(w) /\ result[w] = "Success" => RowOf(w) \in Range(action_logs)
  /\ \A w, v \in Workers :
       (w # v /\ Done(w) /\ Done(v) /\ KeyOf(w) = KeyOf(v)) =>
         /\ ~(result[w] = "Success" /\ result[v] = "Success")
         /\ (started = 2 /\ {result[w], result[v]} \subseteq {"Success", "DuplicateAction"})
              => {result[w], result[v]} = {"Success", "DuplicateAction"}
  /\ \A u \in Users : scores[u] = SumAccepted(u, ActionIds)

(* two calls with the same pair have both returned: one accepted, one duplicate,
   and the score is the increment of the accepted one *)
C1_Witness ==
  \E w, v \in Workers :
    /\ w # v /\ Done(w) /\ Done(v) /\ KeyOf(w) = KeyOf(v)
    /\ result[w] = "Success" /\ result[v] = "DuplicateAction"
    /\ req[w].inc # req[v].inc
    /\ scores[req[w].user] = req[w].inc

(* C2: the insert of the action log and the score increment are one atomic
   unit: in every state every user's score is the sum of the increments of the
   user's committed action logs, also after a transaction failed at any of its
   steps, and a call answered InternalError has changed nothing. *)
C2_AtomicCommit ==
  /\ \A u \in Users : scores[u] = SumInc(action_logs, u)
  /\ \A w \in Workers : result[w] = "InternalError" =>
       /\ touched[w] = {}
       /\ tx[w] = "none"
       /\ Done(w)

(* a transaction failed after its insert and its update, next to a committed one *)
C2_Witness ==
  \E w \in Workers :
    /\ result[w] = "InternalError"
    /\ newScore[w] > 0
    /\ Len(action_logs) > 0

(* worker w commits its transaction in this step *)
Committing(w) == pc[w] = "tx_commit" /\ pc'[w] \notin {"tx_commit", "done"}

(* C3: no update is lost: every commit of an accepted action raises the
   committed score of its user by exactly its increment, whatever other
   transactions for the same user ran in between. *)
C3_NoLostUpdate ==
  [][\A w \in Workers :
       Committing(w) => scores'[req[w].user] = scores[req[w].user] + req[w].inc]_vars

(* two requests of one user with distinct actionIds are in progress together
   and both have committed *)
C3_Witness ==
  \E w, v \in Workers :
    /\ w # v
    /\ req[w].user = req[v].user /\ req[w].action # req[v].action
    /\ pc[w] \in {"cache", "broadcast", "respond"}
    /\ pc[v] \in {"cache", "broadcast", "respond"}
    /\ scores[req[w].user] = req[w].inc + req[v].inc

(* C4: no step lowers any user's score, and every accepted action strictly
   raises the score of its user. *)
C4_ScoreMonotonic ==
  [][/\ \A u \in Users : scores'[u] >= scores[u]
     /\ \A w \in Workers :
          Committing(w) => scores'[req[w].user] > scores[req[w].user]]_vars

(* a user's score was raised twice *)
C4_Witness ==
  \E u \in Users :
    /\ Cardinality({i \in 1..Len(action_logs) : action_logs[i].user = u}) >= 2
    /\ scores[u] >= 2

(* worker w runs its rate check in this step *)
RateChecking(w) == pc[w] = "ratecheck" /\ pc'[w] # "ratecheck"

(* C5: with one call at a time the limit is boundary-exact: a call is answered
   RateLimited exactly when MaxCount calls of its user have already passed the
   rate check in the current window. *)
C5_BoundaryExact ==
  [][\A w \in Workers :
       RateChecking(w) =>
         (result'[w] = "RateLimited" <=> passed[req[w].user] >= MaxCount)]_vars

(* MaxCount calls passed in this window and the next call was rejected *)
C5_Witness ==
  \E w \in Workers :
    /\ Done(w) /\ result[w] = "RateLimited"
    /\ passed[req[w].user] = MaxCount
    /\ rate[req[w].user] = MaxCount
    /\ scores[req[w].user] > 0

(* C6: at most MaxCount calls of one user pass the rate check within one
   window, for every interleaving of the workers' check and increment steps. *)
C6_LimitAcrossInstances ==
  \A u \in Users : passed[u] <= MaxCount

(* C7: a call answered RateLimited has run no further step and has changed
   neither the action logs, the scores, the cache nor any subscriber queue. *)
C7_RateLimitedNoEffect ==
  \A w \in Workers : result[w] = "RateLimited" =>
    /\ Done(w)
    /\ touched[w] = {}
    /\ tx[w] = "none"

(* a call was rejected by the limiter while the store held committed state *)
C7_Witness ==
  \E w \in Workers :
    /\ Done(w) /\ result[w] = "RateLimited"
    /\ ~InvalidRequest(req[w])
    /\ Len(action_logs) > 0
    /\ KeyOf(w) \notin LogKeys

(* C8 as stated: a call with an unknown action type, a non-positive increment
   or an increment above the maximum of its type is answered ValidationError
   and has changed nothing. *)
C8_Original ==
  \A w \in Workers : (Done(w) /\ InvalidRequest(req[w])) =>
    /\ result[w] = "ValidationError"
    /\ touched[w] = {}

(* C8 as amended: such a call never gets past action validation and changes
   nothing; it is answered ValidationError, or DuplicateAction when its
   increment is positive and its (user, actionId) pair is already committed. *)
C8_InvalidNoEffect ==
  \A w \in Workers : (pc[w] # "idle" /\ InvalidRequest(req[w])) =>
    /\ pc[w] \in {"validate", "dupcheck", "actioncheck", "done"}
    /\ touched[w] = {}
    /\ tx[w] = "none"
    /\ Done(w) => \/ result[w] = "ValidationError"
                  \/ /\ result[w] = "DuplicateAction"
                     /\ req[w].inc > 0
                     /\ KeyOf(w) \in LogKeys
    /\ (Done(w) /\ req[w].inc <= 0) => result[w] = "ValidationError"
    /\ (Done(w) /\ KeyOf(w) \notin LogKeys) => result[w] = "ValidationError"

(* calls with an unknown type and with an increment above the maximum were
   rejected while the store held committed state *)
C8_Witness ==
  \E w, v \in Workers :
    /\ Done(w) /\ result[w] = "ValidationError"
    /\ req[w].type \notin AllowedTypes
    /\ Done(v) /\ result[v] = "ValidationError"
    /\ req[v].type \in AllowedTypes /\ req[v].inc > MaxIncrementOf(req[v].type)

(* the event states a score the store has committed: some committed action log
   of its user and action brought the user's score to the event's score *)
CommittedEvent(e) ==
  \E i \in 1..Len(action_logs) :
    /\ action_logs[i].user = e.user
    /\ action_logs[i].action = e.action
    /\ e.score = SumInc(SubSeq(action_logs, 1, i), e.user)

(* C9: every event that was published, and so every event in a subscriber's
   queue or received by a subscriber, states a committed score. *)
C9_PublishAfterCommit ==
  /\ \A e \in Range(published) : CommittedEvent(e)
  /\ \A s \in Subs : \A e \in Range(queues[s]) : CommittedEvent(e)

(* a subscriber holds an event while another transaction is still open *)
C9_Witness ==
  \E s \in subscribers :
    /\ queues[s] # <<>>
    /\ CommittedEvent(Head(queues[s]))
    /\ \E w \in Workers : tx[w] = "updated"

PendingPublish == {w \in Workers : pc[w] \in {"cache", "broadcast"}}

(* C10: every committed update is published exactly once, every connected
   subscriber was offered every event published since it connected, and a
   call that failed has published nothing. *)
C10_PublishOncePerCommit ==
  /\ Len(published) + Cardinality(PendingPublish) = Len(action_logs)
  /\ \A i, j \in 1..Len(published) :
       i # j => <<published[i].user, published[i].action>>
                  # <<published[j].user, published[j].action>>
  /\ \A s \in subscribers :
       /\ pos[s] <= Len(published)
       /\ queues[s] = SubSeq(published, pos[s] + 1, Len(published))
  /\ \A w \in Workers : result[w] \in FailureCodes =>
       touched[w] \cap {"published", "queues"} = {}

(* an update was published to a connected subscriber, and another call failed *)
C10_Witness ==
  /\ Len(published) = 1
  /\ \E s \in subscribers : pos[s] = 0 /\ Len(queues[s]) = 1
  /\ \E w \in Workers : Done(w) /\ result[w] \in FailureCodes

(* C11: publish never blocks on a subscriber: a worker that has reached the
   broadcast step can always take it, whatever the subscribers' queues hold,
   so a subscriber that never drains cannot keep a later call from returning. *)
C11_PublishNeverBlocks ==
  \A w \in Workers : pc[w] = "broadcast" => ENABLED Broadcast(w)

(* a call returned Success after publishing to a subscriber whose queue was
   full and that has never received anything *)
C11_Witness ==
  /\ Len(published) = 2
  /\ \E s \in subscribers :
       lastRecv[s] = 0 /\ pos[s] = 1 /\ Len(queues[s]) = QueueBound
  /\ \E w \in Workers : Done(w) /\ result[w] = "Success"
                          /\ EventOf(w) = published[2]

PublishStep == published' # published

NewestEvent == published'[Len(published')]

QueuesBounded == \A s \in Subs : Len(queues[s]) <= QueueBound

DropOldestOnFull ==
  PublishStep =>
    \A s \in subscribers :
      /\ queues'[s] = IF Len(queues[s]) = QueueBound
                        THEN Append(Tail(queues[s]), NewestEvent)
                        ELSE Append(queues[s], NewestEvent)
      /\ queues'[s][Len(queues'[s])] = NewestEvent

(* C12: no subscriber's queue is ever longer than its bound; a publish that
   finds a queue full removes that queue's oldest event and appends the new
   one, so the newest event is the last of every connected subscriber's queue
   after the publish, each queue being changed by its own content only. *)
C12_BoundedDropOldest == []QueuesBounded /\ [][DropOldestOnFull]_vars

(* the oldest event of a full queue was dropped: the subscriber has received
   nothing, one event is no longer ahead of it and the newest one is queued *)
C12_Witness ==
  /\ Len(published) = 2
  /\ \E s \in subscribers :
       lastRecv[s] = 0 /\ pos[s] = 1 /\ queues[s] = <<published[2]>>

CommitIndex(e) ==
  CHOOSE i \in 1..Len(action_logs) :
    action_logs[i].user = e.user /\ action_logs[i].action = e.action

ReceivedInCommitOrder ==
  \A s \in Subs :
    (lastRecv'[s] # lastRecv[s] /\ lastRecv[s] > 0 /\ lastRecv'[s] > 0) =>
      CommitIndex(published[lastRecv[s]]) < CommitIndex(published[lastRecv'[s]])

(* C13: events reach each subscriber in commit order: whenever a subscriber
   receives an event after another one, the update of the earlier received
   event was committed before the update of the later one, also when the two
   were committed and published by different concurrent workers. *)
C13_DeliveredInCommitOrder == [][ReceivedInCommitOrder]_vars

Disconnected == Subs \ subscribers

NothingQueuedForDisconnected ==
  \A s \in Disconnected : queues[s] = <<>> /\ ~ENABLED Deliver(s)

NothingReachesDisconnected ==
  \A s \in Disconnected :
    /\ s \notin subscribers' => queues'[s] = <<>> /\ lastRecv'[s] = lastRecv[s]
    /\ s \in subscribers' => queues'[s] = <<>>

UnsubscribeDiscards ==
  \A s \in subscribers : s \notin subscribers' => queues'[s] = <<>>

(* C15: unsubscribe (or loss of the connection) removes the subscriber and
   discards its queue: a subscriber that is not connected has an empty queue,
   a publish enqueues nothing for it and nothing is delivered to it. *)
C15_UnsubscribeStopsDelivery ==
  /\ []NothingQueuedForDisconnected
  /\ [][NothingReachesDisconnected /\ UnsubscribeDiscards]_vars

(* a subscriber disconnected after the first event, an event was published
   after that, and nothing is queued for it *)
C15_Witness ==
  /\ Len(published) = 2
  /\ \E s \in Disconnected : pos[s] = 1 /\ queues[s] = <<>>

Events == 1..MaxRequests

Queued(s, k) == s \in subscribers /\ pos[s] < k /\ k <= Len(published)

Settled(s, k) == s \notin subscribers \/ lastRecv[s] >= k

(* C14: for a subscriber that stays connected and keeps draining its queue,
   every event published while it is connected is eventually delivered to it
   or superseded by a later event that is delivered to it. *)
C14_DeliveredOrSuperseded ==
  \A s \in Subs : \A k \in Events : Queued(s, k) ~> Settled(s, k)

(* a connected subscriber has received the latest of two events published
   while it was connected, and nothing is left in its queue *)
C14_Witness ==
  /\ Len(published) = 2
  /\ \E s \in subscribers :
       lastRecv[s] = 2 /\ pos[s] = 2 /\ queues[s] = <<>>

Succeeded(w) == Done(w) /\ result[w] = "Success"

RowsBefore(w) == SubSeq(action_logs, 1, CommitIndex(EventOf(w)) - 1)

ScoreBefore(w) == SumInc(RowsBefore(w), req[w].user)

Above(u) == {v \in Users : scores[v] > scores[u]}

TiedWith(u) == {v \in Users : scores[v] = scores[u]}

PositionsOf(u) ==
  (Cardinality(Above(u)) + 1)..(Cardinality(Above(u)) + Cardinality(TiedWith(u)))

(* C18: an accepted call returns newScore = the user's score before the call
   plus the increment (the increment itself on the user's first accepted
   action) and a rank that is the user's position in the descending-score
   order of the store including this update. *)
C18_NewScoreAndRank ==
  \A w \in Workers : Succeeded(w) =>
    /\ newScore[w] = ScoreBefore(w) + req[w].inc
    /\ newScore[w] = scores[req[w].user]
    /\ (\A r \in Range(RowsBefore(w)) : r.user # req[w].user)
          => newScore[w] = req[w].inc
    /\ rank[w] \in PositionsOf(req[w].user)
    /\ Len(action_logs) = 1 => rank[w] = 1

(* V overtakes U: U was ahead of V before the call, the call returns rank 1
   for V and U's position is now 2 *)
C18_Witness ==
  \E w \in Workers : \E u \in Users :
    /\ Succeeded(w)
    /\ u # req[w].user
    /\ scores[u] > ScoreBefore(w)
    /\ scores[u] < newScore[w]
    /\ rank[w] = 1
    /\ PositionsOf(u) = {2}

Precedes(a, b) ==
  a.score > b.score \/ (a.score = b.score /\ a.lastUpdated <= b.lastUpdated)

StoreEntry(u) == [score |-> scores[u], lastUpdated |-> LastUpdated(u)]

ReturnedSorted ==
  \A i, j \in 1..Len(qres.scores) :
    /\ qres.scores[i].rank = i
    /\ i < j => Precedes(qres.scores[i], qres.scores[j])

Recomputing == qpc = "db" /\ qpc' = "store"

RecomputedInRankOrder ==
  Recomputing =>
    /\ \A i, j \in 1..Len(qdata') : i < j => Precedes(qdata'[i], qdata'[j])
    /\ \A u \in Users :
         (\A i \in 1..Len(qdata') : qdata'[i].user # u) =>
           \A i \in 1..Len(qdata') : Precedes(qdata'[i], StoreEntry(u))

(* C16: every sequence queryTop returns is sorted by score descending with
   equal scores ordered by earliest lastUpdated and ranks 1..n in that order,
   and a recomputation from the store yields exactly that order: a user left
   out never precedes a user that is returned. *)
C16_SortedTiesByLastUpdated == []ReturnedSorted /\ [][RecomputedInRankOrder]_vars

QueryAnswered == qpc = "done"

(* C19: queryTop(limit) returns exactly min(limit, number of users with a
   score record) entries, each user at most once, with ranks 1..n in order,
   and totalUsers is the number of score records, also when limit exceeds K. *)
C19_ReturnsMinLimitUsers ==
  QueryAnswered =>
    /\ Len(qres.scores) = Min(qlimit, Cardinality(DOMAIN scores))
    /\ \A i, j \in 1..Len(qres.scores) :
         i # j => qres.scores[i].user # qres.scores[j].user
    /\ \A i \in 1..Len(qres.scores) : qres.scores[i].rank = i
    /\ qres.totalUsers = Cardinality(DOMAIN scores)

AnswerFromCache == qpc = "idle" /\ qpc' = "done"

AnswerFromStore == qpc = "store" /\ qpc' = "done"

CacheWithinEpsilon ==
  cacheValid => ttl \in 1..Epsilon /\ cold <= Epsilon - ttl

CachedAnswerWithinEpsilon ==
  AnswerFromCache =>
    /\ cacheValid /\ ttl > 0
    /\ cold <= Epsilon
    /\ \A i \in 1..Len(qres'.scores) :
         /\ qres'.scores[i].user = cache[i].user
         /\ qres'.scores[i].score = cache[i].score

ExpiredIsRecomputed ==
  /\ (qpc = "idle" /\ qpc' # "idle" /\ ~cacheValid) => qpc' = "db"
  /\ AnswerFromStore =>
       /\ cache' = qdata /\ cacheValid' /\ ttl' = Epsilon
       /\ \A i \in 1..Len(qres'.scores) :
            /\ qres'.scores[i].user = qdata[i].user
            /\ qres'.scores[i].score = qdata[i].score
  /\ (qpc = "db" /\ qpc' = "store") =>
       \E s \in TopLists(scores, TopK) :
         \A i \in 1..Len(s) :
           qdata'[i].user = s[i] /\ qdata'[i].score = scores[s[i]]

(* C17: a query answers from the cache only while the cached data are at most
   Epsilon old, counted in clock ticks since they stopped matching the store;
   once the time to live is used up the next query recomputes from the store,
   replaces the cache and restarts its time to live; a cache entry written by
   a query that raced with an update is replaced after at most Epsilon. *)
C17_BoundedStaleness ==
  /\ []CacheWithinEpsilon
  /\ [][CachedAnswerWithinEpsilon /\ ExpiredIsRecomputed]_vars

(* no call is in progress, yet the cache holds data that stopped matching
   the store a tick ago: a query stored what it had read before an update
   was committed; a query has been answered in this state *)
C17_Witness ==
  /\ \A w \in Workers : pc[w] = "idle"
  /\ cacheValid
  /\ ~Current(cache)
  /\ cold = 1
  /\ qpc = "done"
  /\ qres = TopResponse(cache, qlimit)

AmountAcceptable ==
  LET n == parseFloat(fromAmount)
  IN  /\ fromAmount # <<>>
      /\ n.whole >= 0
      /\ n.whole > 0 \/ n.micro > 0
      /\ n.whole < AmountLimit \/ (n.whole = AmountLimit /\ n.micro = 0)

MaySubmit ==
  /\ AmountAcceptable
  /\ prices[fromToken] # 0
  /\ prices[toToken] # 0
  /\ fromToken # toToken

SubmissionStarts == ~submitting /\ submitting'

SubmitHandled == ~submitting /\ event' = "handleSubmit"

StartsOnlyIfValid ==
  /\ SubmissionStarts => MaySubmit /\ event' = "handleSubmit"
  /\ (SubmitHandled /\ ~MaySubmit) =>
       /\ ~submitting'
       /\ errors' # NoErrors
       /\ UNCHANGED <<fromAmount, toAmount, fromToken, toToken, prices>>

(* C20: in the swap form a submission starts only if fromAmount is a
   non-empty positive number not above 1,000,000, both selected tokens have a
   price and the two tokens differ, after any sequence of amount edits, token
   selections and token swaps; otherwise handleSubmit sets an error and
   returns without submitting. *)
C20_SubmitOnlyIfValid == [][StartsOnlyIfValid]_vars

(* a swap made an amount above the limit the amount to send, the button was
   enabled, and handleSubmit refused it *)
C20_Witness ==
  /\ event = "handleSubmit"
  /\ ~submitting
  /\ errors.fromAmount = "Amount is too large"
  /\ Len(fromAmount) > Decimals + 1
  /\ fromAmount[Len(fromAmount) - Decimals] = "."

(* ------------------------- C21: errors cleared ------------------------- *)
(* both selected tokens have price data and the form is displayed *)
SelectedPricesKnown == ~loading /\ prices[fromToken] # 0 /\ prices[toToken] # 0

(* the general error is one of the two price-not-available messages *)
PriceErrorShown == errors.general \in {"PriceNotAvailableFor", "PriceNotAvailable"}

(* C21: in the swap form, once both selected tokens have price data (after
   the prices load, or after other tokens are selected) the
   price-not-available general error shown for the selected tokens is no
   longer present. *)
C21_PriceErrorCleared == SelectedPricesKnown => ~PriceErrorShown

(* ---------------------- C22: one submission at a time ------------------- *)
(* the simulated 2-second call always returns *)
SpecSwapLive == SpecSwap /\ WF_vars(SubmitCompletes)

(* the handlers of the controls that are disabled while submitting *)
DisabledHandlers == {"handleSubmit", "handleFromAmountChange", "handleSwapTokens"}

(* while a submission is in progress no step is one of the disabled
   controls' handlers, so no second submission starts *)
ControlsDisabledWhileSubmitting ==
  submitting => event' \notin DisabledHandlers \/ UNCHANGED nonBoardVars

(* submitting is true exactly while one simulated call has not returned *)
OneSubmissionInFlight == pending <= 1 /\ (submitting <=> pending = 1)

(* C22: while a swap submission is in progress no second submission can
   start: the submit button, the swap-tokens button and the amount input are
   disabled until the simulated call finishes, so at most one submission is
   in flight at any time, and submitting eventually returns to false. *)
C22_SingleSubmission ==
  /\ []OneSubmissionInFlight
  /\ [][ControlsDisabledWhileSubmitting]_vars
  /\ (submitting ~> ~submitting)

(* a submission is in flight and the user has acted on the form meanwhile *)
C22_Witness == submitting /\ pending = 1 /\ event \in {"setFromToken", "toggleTo"}

(* ----------------------- C29: one dropdown open ------------------------- *)
(* C29: in the swap form at most one token dropdown is open at any time:
   after any sequence of clicks on the two token-select buttons and on token
   options, showFromDropdown and showToDropdown are never both true. *)
C29_AtMostOneDropdownOpen == ~(showFromDropdown /\ showToDropdown)

(* the dropdown of the token to send was opened by its button while the
   other one is closed *)
C29_Witness == event = "toggleFrom" /\ showFromDropdown /\ ~showToDropdown

(* ----------------------- C23: POST /api/resources ----------------------- *)
(* the name is missing, empty or made of blanks only *)
BlankName(name) ==
  name \in {undefined, NULL} \/ \A i \in 1..Len(name) : name[i] = " "

(* t is text with its leading and trailing blanks removed *)
TrimmedOf(text, t) ==
  /\ t # <<>> /\ t[1] # " " /\ t[Len(t)] # " "
  /\ \E i \in 0..Len(text) : \E j \in i..Len(text) :
       /\ t = SubSeq(text, i + 1, j)
       /\ \A k \in 1..i : text[k] = " "
       /\ \A k \in (j + 1)..Len(text) : text[k] = " "

Ids(rows) == {r.id : r \in rows}

CreateOutcome(body) ==
  IF BlankName(body.name)
    THEN lastResponse'.status = 400 /\ resources' = resources
    ELSE /\ lastResponse'.status = 201
         /\ \E row \in resources' :
              /\ row.id \notin Ids(resources)
              /\ resources' = resources \cup {row}
              /\ lastResponse'.data = row
              /\ TrimmedOf(body.name, row.name)
              /\ body.status = undefined => row.status = Active
              /\ body.description = undefined => row.description = NULL

(* C23: POST /api/resources with a missing, empty or whitespace-only name
   returns 400 and inserts no row; with a non-blank name it returns 201 with
   the new row, whose name is trimmed, whose status is 'active' when omitted
   and whose description is null when omitted. *)
C23_CreateValidatesName ==
  [][\A body \in Bodies : createResource(body) => CreateOutcome(body)]_vars

(* a resource was created from a name with blanks around it and nothing else *)
C23_Witness ==
  /\ lastResponse.status = 201
  /\ lastResponse.data \in resources
  /\ lastResponse.data.name = <<"b">>
  /\ lastResponse.data.status = Active
  /\ lastResponse.data.description = NULL

(* -------------------- C24: missing and deleted ids ---------------------- *)
(* the step is a GET, PUT or DELETE of /api/resources/param *)
ByIdHandled(param) ==
  \/ getResource(param)
  \/ \E body \in Bodies : updateResource(param, body)
  \/ deleteResource(param)

MissingIsNotFound ==
  \A param \in IdParams :
    (parseInt(param) # NaNId /\ parseInt(param) \notin Ids(resources)) =>
      (ByIdHandled(param) => lastResponse'.status = 404 /\ resources' = resources)

DeleteRemoves ==
  \A param \in IdParams :
    (deleteResource(param) /\ parseInt(param) \in Ids(resources)) =>
      /\ lastResponse'.status = 200
      /\ parseInt(param) \notin Ids(resources')
      /\ parseInt(param) \in deleted'

DeletedStayDeleted == \A id \in deleted : id \notin Ids(resources)

(* C24: GET, PUT and DELETE of /api/resources/:id for an id that has no row
   return 404 and leave the table unchanged; after a successful DELETE of an
   id no row ever has that id again, whatever creates, updates and deletes
   follow (a later create never reuses the id), so every later GET, PUT or
   DELETE of it returns 404. *)
C24_DeletedIdStays404 ==
  /\ []DeletedStayDeleted
  /\ [][MissingIsNotFound /\ DeleteRemoves]_vars

(* id 1 was deleted, another resource exists, and a request for a missing id
   has just been answered 404 *)
C24_Witness ==
  /\ 1 \in deleted
  /\ 2 \in Ids(resources)
  /\ lastResponse.status = 404

(* ----------------------- C28: PUT frame condition ----------------------- *)
PutOutcome(id, body) ==
  IF lastResponse'.status = 200
    THEN /\ body # NoBody
         /\ sequence' = sequence
         /\ \E old \in resources : \E new \in resources' :
              /\ old.id = id /\ new.id = id
              /\ resources' \ {new} = resources \ {old}
              /\ lastResponse'.data = new
              /\ new.createdAt = old.createdAt
              /\ new.updatedAt = now
              /\ IF body.name = undefined THEN new.name = old.name
                 ELSE TrimmedOf(body.name, new.name)
              /\ body.description = undefined => new.description = old.description
              /\ IF body.status = undefined THEN new.status = old.status
                 ELSE new.status = body.status
    ELSE /\ resources' = resources
         /\ sequence' = sequence
         /\ lastResponse'.status \in {400, 404, 500}
         /\ id = NaNId => lastResponse'.status = 400
         /\ (id # NaNId /\ id \notin Ids(resources)) => lastResponse'.status = 404
         /\ (id \in Ids(resources) /\ body.name # NULL
               /\ (body = NoBody \/ (body.name # undefined /\ BlankName(body.name))))
              => lastResponse'.status = 400

(* C28: a successful PUT /api/resources/:id changes only the fields supplied
   in the body (name, description, status) and updatedAt of that one row; its
   id, createdAt, its unsupplied fields and all other rows are unchanged, and
   a PUT that returns 400 (invalid id, blank name, no fields) or 404 changes
   nothing. *)
C28_PutChangesOnlySupplied ==
  [][\A param \in IdParams : \A body \in Bodies :
       updateResource(param, body) => PutOutcome(parseInt(param), body)]_vars

(* only the status of one of two resources was updated, a second after it
   was created *)
C28_Witness ==
  /\ lastResponse.status = 200
  /\ lastResponse.data \in resources
  /\ Cardinality(resources) = 2
  /\ lastResponse.data.status = Inactive
  /\ lastResponse.data.description = NULL
  /\ lastResponse.data.updatedAt > lastResponse.data.createdAt

(* --------------------------- C25: sum_to_n ------------------------------ *)
(* 1 + 2 + ... + m, counted as the pairs x <= y of 1..m; 0 when m <= 0 *)
OneToN(m) == Cardinality({p \in (1..m) \X (1..m) : p[1] <= p[2]})

SumsAgree ==
  spc = "done" =>
    /\ sums.a = OneToN(arg)
    /\ sums.b = sums.a
    /\ sums.c = sums.a
    /\ arg <= 0 => sums.a = 0
    /\ arg = 5 => sums.a = 15
    /\ arg = 10 => sums.a = 55

(* C25: for every integer n, sum_to_n_a, sum_to_n_b and sum_to_n_c return the
   same value, which is 1 + 2 + ... + n for n >= 1 (15 for n = 5, 55 for
   n = 10) and 0 for n <= 0, and the loop of sum_to_n_a and the recursion of
   sum_to_n_b terminate. *)
C25_SumsAgreeAndTerminate ==
  /\ []SumsAgree
  /\ (spc = "a_loop") ~> (spc = "b")
  /\ (spc = "b_body") ~> (spc = "c")

(* the three functions have returned 55 for n = 10 *)
C25_Witness == spc = "done" /\ arg = 10 /\ sums = [a |-> 55, b |-> 55, c |-> 55]

(* ------------------ C26: notify and the next query --------------------- *)
(* a committed update has not been passed to the cache yet *)
NotifyPending == \E w \in Workers : pc[w] = "cache"

(* worker w passes its committed update to the cache *)
Notified(w) == pc[w] = "cache" /\ pc'[w] = "broadcast"

(* the answer is a top-K answer on the scores of the store *)
ReflectsStore(res, limit) ==
  \E s \in TopLists(scores, TopK) : res = TopResponse(Snapshot(scores, s), limit)

(* after the notification the cached top-K is marked stale or matches the
   store, whatever it held before *)
NotifyRefreshes ==
  \A w \in Workers : Notified(w) => (~cacheValid' \/ Current(cache)')

(* a query answered from the entry the notification wrote reflects the update *)
AnswerAfterNotifyReflects ==
  (AnswerFromCache /\ ~NotifyPending /\ writer = "notify") =>
    ReflectsStore(qres', qlimit')

(* the claim as stated: every query answered once the update has been
   notified reflects it *)
C26_Original ==
  [][(AnswerFromCache /\ ~NotifyPending) => ReflectsStore(qres', qlimit')]_vars

(* C26 (amended): the notification of a committed (userId, newScore) marks
   the cached top-K stale or refreshes it whenever the update can change its
   membership or order, also when the cached set holds fewer than K entries,
   so a query that finds the entry the notification left returns a sequence
   that reflects the update without waiting for Epsilon; a recompute that
   read the store before the commit and writes the cache after the
   notification can still put the older sequence back until it expires. *)
C26_NotifyRefreshesCache ==
  [][NotifyRefreshes /\ AnswerAfterNotifyReflects]_vars

(* a query was answered from the entry written by the notification of an
   update that put a user with a positive score on top *)
C26_Witness ==
  /\ qpc = "done"
  /\ writer = "notify"
  /\ cacheValid
  /\ ~NotifyPending
  /\ qres = TopResponse(cache, qlimit)
  /\ Len(cache) >= 1
  /\ cache[1].score > 0

(* --------------------- C27: whole snapshots only ------------------------ *)
(* the sequence is a whole top-K snapshot: K entries (all users when there
   are fewer), one per user, in descending order of scores the users had *)
CompleteSnapshot(data) ==
  /\ Len(data) = Min(TopK, Cardinality(Users))
  /\ \A i, j \in 1..Len(data) : i < j =>
       data[i].user # data[j].user /\ data[i].score >= data[j].score
  /\ \A i \in 1..Len(data) : data[i].score \in 0..scores[data[i].user]

CacheIsComplete == cacheValid => CompleteSnapshot(cache)

(* a reader gets the whole sequence that was cached before its read, or the
   whole sequence its own recompute built *)
ReaderGetsWholeSnapshot ==
  /\ AnswerFromCache =>
       CompleteSnapshot(cache) /\ qres' = TopResponse(cache, qlimit')
  /\ AnswerFromStore =>
       CompleteSnapshot(qdata) /\ qres' = TopResponse(qdata, qlimit)

(* a step that replaces the cached sequence is the step of one recompute,
   which installs the whole sequence it built *)
OneRecomputeReplaces ==
  (cacheValid' /\ cache' # cache) =>
    \/ /\ AnswerFromStore
       /\ pc' = pc
       /\ cache' = qdata
    \/ /\ qpc' = qpc
       /\ Cardinality({w \in Workers : Notified(w)}) = 1
       /\ \A w \in Workers : Notified(w) \/ pc'[w] = pc[w]
       /\ Current(cache)'

(* C27: a query running concurrently with a recompute never observes a
   half-built snapshot: every sequence a reader gets is either the complete
   previous snapshot or the complete new one, and at most one recompute
   replaces the snapshot at a time. *)
C27_NoHalfBuiltSnapshot ==
  /\ []CacheIsComplete
  /\ [][ReaderGetsWholeSnapshot /\ OneRecomputeReplaces]_vars

(* a query's recompute has built its snapshot and is about to install it
   while an update pipeline is about to refresh the cache as well *)
C27_Witness ==
  /\ qpc = "store"
  /\ \E w \in Workers : pc[w] = "cache"
  /\ cacheValid
  /\ qdata # cache

====
